---- MODULE Spec2Model ----
(***************************************************************************)
(* The financial domain: FinancialDB (data_model.py) and the operations of *)
(* FinancialTools (tools.py).                                              *)
(*                                                                         *)
(* Money amounts, balances and fraud scores are Python floats.  They are   *)
(* modelled as binary floating-point numbers with Precision significant    *)
(* bits whose smallest unit is 1: a value is an integer, and the result of *)
(* an addition or subtraction is rounded to the nearest representable      *)
(* value, ties to even, as IEEE 754 does with 53 bits.  NaN is one more    *)
(* value, written as an integer no computation reaches; every comparison   *)
(* with it is false and every sum with it is NaN.  The infinities are not  *)
(* modelled.                                                               *)
(*                                                                         *)
(* Identifiers of transactions and messages are integers standing for the  *)
(* strings the code uses; uuid4() is a choice among the identifiers that   *)
(* are not yet keys of the mapping.  datetime.now() is a choice among      *)
(* Timestamps (the wall clock is not monotonic).  The created_at fields,   *)
(* assigned at construction and read by no operation, are left out.        *)
(***************************************************************************)
EXTENDS Integers, Sequences, FiniteSets, TLC

VARIABLES
    customers,       \* FinancialDB.customers:      customer id    -> Customer
    accounts,        \* FinancialDB.accounts:       account id     -> Account
    transactions,    \* FinancialDB.transactions:   transaction id -> Transaction
    swift_messages,  \* FinancialDB.swift_messages: message id     -> SwiftMessage
    ret,             \* the last completed call: its name and its outcome
    pc,              \* position of the caller that runs clear_transaction step by step
    cur              \* the transaction id that caller is clearing, None when idle

db == <<customers, accounts, transactions, swift_messages>>
vars == <<customers, accounts, transactions, swift_messages, ret, pc, cur>>

----------------------------------------------------------------------------
\* Bounds of the model.

Precision == 3            \* significant bits of a float
MaxAmount == 1            \* largest amount a caller passes

----------------------------------------------------------------------------
\* Values.

None == <<>>
Some(v) == <<v>>

CustomerIds == {"cust_1", "cust_2"}
AccountIds == {"acc_1", "acc_2"}
AbsentAccount == "invalid"
AbsentCustomer == "not_found"
AnyAccountId == AccountIds \cup {AbsentAccount}
AnyCustomerId == CustomerIds \cup {AbsentCustomer}

\* Transaction 0 is the one a snapshot may hold; identifier 9 is never a key.
NewTransactionIds == {1}
AnyTransactionId == {0} \cup NewTransactionIds \cup {9}
NewMessageIds == {1}
AnyMessageId == NewMessageIds \cup {9}

Statuses == {"pending", "cleared", "rejected", "flagged"}
Currencies == {"USD"}
Amounts == (-1)..MaxAmount
Scores == {-1, 1}
Timestamps == {1}
\* acc_2 starts at the first magnitude whose successor is not representable
\* (2^53 for a Python float).
InitBalance == ("acc_1" :> 1) @@ ("acc_2" :> 2^Precision)

----------------------------------------------------------------------------
\* Float arithmetic.

Abs(x) == IF x < 0 THEN -x ELSE x

\* The spacing of the representable values around magnitude m.
RECURSIVE Ulp(_)
Ulp(m) == IF m < 2^Precision THEN 1 ELSE 2 * Ulp(m \div 2)

\* Round to nearest, ties to even.
RoundFloat(x) ==
    LET m == Abs(x)
        u == Ulp(m)
        q == m \div u
        r == m % u
        n == IF 2 * r > u \/ (2 * r = u /\ q % 2 = 1) THEN (q + 1) * u ELSE q * u
    IN  IF x < 0 THEN -n ELSE n

\* float("nan"), which a float parameter and a float field accept.
NaN == 0 - 2^(2 * Precision + 4)
IsNaN(x) == x = NaN

FloatAdd(a, b) == IF IsNaN(a) \/ IsNaN(b) THEN NaN ELSE RoundFloat(a + b)
FloatSub(a, b) == IF IsNaN(a) \/ IsNaN(b) THEN NaN ELSE RoundFloat(a - b)
FloatLt(a, b) == ~IsNaN(a) /\ ~IsNaN(b) /\ a < b
FloatLe(a, b) == ~IsNaN(a) /\ ~IsNaN(b) /\ a <= b

----------------------------------------------------------------------------
\* Entity validators (run at construction only: the models do not set
\* validate_assignment).

validate_balance(v) == ~FloatLt(v, 0)
validate_amount(v) == ~FloatLe(v, 0)
validate_fraud_score(v) == v = None \/ (FloatLe(0, v[1]) /\ FloatLe(v[1], 1))

Customer(customer_id) == [customer_id |-> customer_id]

Account(account_id, customer_id, balance) ==
    [account_id |-> account_id, customer_id |-> customer_id, balance |-> balance]

SwiftMessage(message_id) == [message_id |-> message_id, processed |-> FALSE]

Transaction(transaction_id, from_account_id, to_account_id, amount, currency, status) ==
    [transaction_id   |-> transaction_id,
     from_account_id  |-> from_account_id,
     to_account_id    |-> to_account_id,
     amount           |-> amount,
     currency         |-> currency,
     status           |-> status,
     swift_message_id |-> None,
     fraud_score      |-> None,
     processed_at     |-> None,
     description      |-> None]

----------------------------------------------------------------------------
\* Outcomes of a call.  A returned record is named by its identifier: the
\* code returns the object the mapping holds.

Return(op, val) ==
    /\ ret' = [op |-> op, err |-> "ok", entity |-> None, val |-> Some(val)]
    /\ UNCHANGED <<pc, cur>>

\* A raised ValueError: the store is as the call found it.
Raise(op, err, entity) ==
    /\ ret' = [op |-> op, err |-> err, entity |-> entity, val |-> None]
    /\ UNCHANGED <<db, pc, cur>>

NotFound(op, kind) == Raise(op, "NotFound", Some(kind))

\* uuid.uuid4(): an identifier that is no key yet.
uuid4(pool, mapping) == pool \ DOMAIN mapping

----------------------------------------------------------------------------
\* Lookups (_get_customer, _get_account, _get_transaction, and the test in
\* get_swift_message): TRUE when the lookup raises.

customer_missing(customer_id) == customer_id \notin DOMAIN customers
account_missing(account_id) == account_id \notin DOMAIN accounts
transaction_missing(transaction_id) == transaction_id \notin DOMAIN transactions
swift_message_missing(message_id) == message_id \notin DOMAIN swift_messages

\* The list a scan builds, one entry per matching key.
RECURSIVE ListOf(_)
ListOf(S) ==
    IF S = {} THEN <<>>
    ELSE LET x == CHOOSE y \in S : TRUE IN <<x>> \o ListOf(S \ {x})

----------------------------------------------------------------------------
\* Read operations.

get_customer_details(customer_id) ==
    LET op == "get_customer_details" IN
    IF customer_missing(customer_id)
    THEN NotFound(op, "Customer")
    ELSE Return(op, customer_id) /\ UNCHANGED db

get_account_balance(account_id) ==
    LET op == "get_account_balance" IN
    IF account_missing(account_id)
    THEN NotFound(op, "Account")
    ELSE Return(op, accounts[account_id].balance) /\ UNCHANGED db

get_transaction_status(transaction_id) ==
    LET op == "get_transaction_status" IN
    IF transaction_missing(transaction_id)
    THEN NotFound(op, "Transaction")
    ELSE Return(op, transactions[transaction_id].status) /\ UNCHANGED db

get_customer_accounts(customer_id) ==
    LET op == "get_customer_accounts" IN
    IF customer_missing(customer_id)
    THEN NotFound(op, "Customer")
    ELSE /\ Return(op,
                   ListOf({a \in DOMAIN accounts : accounts[a].customer_id = customer_id}))
         /\ UNCHANGED db

\* get_account_transactions appending a transaction once for each side that
\* names the account.
get_account_transactions_per_side(account_id) ==
    LET op == "get_account_transactions" IN
    IF account_missing(account_id)
    THEN NotFound(op, "Account")
    ELSE /\ Return(op,
                   ListOf({t \in DOMAIN transactions :
                              transactions[t].from_account_id = account_id}) \o
                   ListOf({t \in DOMAIN transactions :
                              transactions[t].to_account_id = account_id}))
         /\ UNCHANGED db

get_account_transactions(account_id) ==
    LET op == "get_account_transactions" IN
    IF account_missing(account_id)
    THEN NotFound(op, "Account")
    ELSE /\ Return(op,
                   ListOf({t \in DOMAIN transactions :
                              \/ transactions[t].from_account_id = account_id
                              \/ transactions[t].to_account_id = account_id}))
         /\ UNCHANGED db

get_swift_message(message_id) ==
    LET op == "get_swift_message" IN
    IF swift_message_missing(message_id)
    THEN NotFound(op, "SWIFT message")
    ELSE Return(op, message_id) /\ UNCHANGED db

----------------------------------------------------------------------------
\* Write operations, each run to completion.

\* tools.py lines 121-122: from_account and to_account are the objects the
\* mapping holds, the same object when the two ids are equal.
debit(accts, account_id, amount) ==
    [accts EXCEPT ![account_id].balance = FloatSub(@, amount)]

credit(accts, account_id, amount) ==
    [accts EXCEPT ![account_id].balance = FloatAdd(@, amount)]

\* The funds check with the boundary on the wrong side.
insufficient_funds_le(balance, amount) == balance <= amount

\* tools.py line 86: the funds check of create_transaction.
insufficient_funds(balance, amount) == FloatLt(balance, amount)

\* create_transaction without the lookup of the destination account.
create_transaction_unresolved(from_account_id, to_account_id, amount, currency) ==
    LET op == "create_transaction" IN
    IF account_missing(from_account_id)
    THEN NotFound(op, "Account")
    ELSE IF insufficient_funds(accounts[from_account_id].balance, amount)
    THEN Raise(op, "InsufficientFunds", None)
    ELSE IF ~validate_amount(amount)
    THEN Raise(op, "InvalidArgument", None)
    ELSE \E transaction_id \in uuid4(NewTransactionIds, transactions) :
            /\ transactions' = transactions @@
                   (transaction_id :> Transaction(transaction_id, from_account_id,
                                                  to_account_id, amount, currency,
                                                  "pending"))
            /\ Return(op, transaction_id)
            /\ UNCHANGED <<customers, accounts, swift_messages>>

\* create_transaction reserving the funds: the source is debited at creation.
create_transaction_reserving(from_account_id, to_account_id, amount, currency) ==
    LET op == "create_transaction" IN
    IF account_missing(from_account_id)
    THEN NotFound(op, "Account")
    ELSE IF account_missing(to_account_id)
    THEN NotFound(op, "Account")
    ELSE IF insufficient_funds(accounts[from_account_id].balance, amount)
    THEN Raise(op, "InsufficientFunds", None)
    ELSE IF ~validate_amount(amount)
    THEN Raise(op, "InvalidArgument", None)
    ELSE \E transaction_id \in uuid4(NewTransactionIds, transactions) :
            /\ transactions' = transactions @@
                   (transaction_id :> Transaction(transaction_id, from_account_id,
                                                  to_account_id, amount, currency,
                                                  "pending"))
            /\ accounts' = debit(accounts, from_account_id, amount)
            /\ Return(op, transaction_id)
            /\ UNCHANGED <<customers, swift_messages>>

create_transaction(from_account_id, to_account_id, amount, currency) ==
    LET op == "create_transaction" IN
    IF account_missing(from_account_id)
    THEN NotFound(op, "Account")
    ELSE IF account_missing(to_account_id)
    THEN NotFound(op, "Account")
    ELSE IF insufficient_funds(accounts[from_account_id].balance, amount)
    THEN Raise(op, "InsufficientFunds", None)
    ELSE IF ~validate_amount(amount)
    THEN Raise(op, "InvalidArgument", None)
    ELSE \E transaction_id \in uuid4(NewTransactionIds, transactions) :
            /\ transactions' = transactions @@
                   (transaction_id :> Transaction(transaction_id, from_account_id,
                                                  to_account_id, amount, currency,
                                                  "pending"))
            /\ Return(op, transaction_id)
            /\ UNCHANGED <<customers, accounts, swift_messages>>

\* The status guard refusing cleared transactions only.
not_pending_cleared_only(transaction) == transaction.status = "cleared"

\* The status guard left out.
not_pending_unchecked(transaction) == FALSE

\* tools.py line 114.
not_pending(transaction) == transaction.status # "pending"

\* clear_transaction without the assignment of the status.
clear_transaction_unmarked(transaction_id) ==
    LET op == "clear_transaction" IN
    IF transaction_missing(transaction_id)
    THEN NotFound(op, "Transaction")
    ELSE LET transaction == transactions[transaction_id] IN
    IF not_pending(transaction)
    THEN Raise(op, "InvalidState", None)
    ELSE IF account_missing(transaction.from_account_id)
    THEN NotFound(op, "Account")
    ELSE IF account_missing(transaction.to_account_id)
    THEN NotFound(op, "Account")
    ELSE \E now \in Timestamps :
            /\ accounts' = credit(debit(accounts, transaction.from_account_id,
                                        transaction.amount),
                                  transaction.to_account_id, transaction.amount)
            /\ transactions' = [transactions EXCEPT
                                   ![transaction_id].processed_at = Some(now)]
            /\ Return(op, transaction_id)
            /\ UNCHANGED <<customers, swift_messages>>

\* clear_transaction with the funds check of create_transaction repeated.
clear_transaction_rechecking(transaction_id) ==
    LET op == "clear_transaction" IN
    IF transaction_missing(transaction_id)
    THEN NotFound(op, "Transaction")
    ELSE LET transaction == transactions[transaction_id] IN
    IF not_pending(transaction)
    THEN Raise(op, "InvalidState", None)
    ELSE IF account_missing(transaction.from_account_id)
    THEN NotFound(op, "Account")
    ELSE IF account_missing(transaction.to_account_id)
    THEN NotFound(op, "Account")
    ELSE IF insufficient_funds(accounts[transaction.from_account_id].balance,
                               transaction.amount)
    THEN Raise(op, "InsufficientFunds", None)
    ELSE \E now \in Timestamps :
            /\ accounts' = credit(debit(accounts, transaction.from_account_id,
                                        transaction.amount),
                                  transaction.to_account_id, transaction.amount)
            /\ transactions' = [transactions EXCEPT
                                   ![transaction_id].status = "cleared",
                                   ![transaction_id].processed_at = Some(now)]
            /\ Return(op, transaction_id)
            /\ UNCHANGED <<customers, swift_messages>>

\* clear_transaction without the assignment of processed_at.
clear_transaction_unstamped(transaction_id) ==
    LET op == "clear_transaction" IN
    IF transaction_missing(transaction_id)
    THEN NotFound(op, "Transaction")
    ELSE LET transaction == transactions[transaction_id] IN
    IF not_pending(transaction)
    THEN Raise(op, "InvalidState", None)
    ELSE IF account_missing(transaction.from_account_id)
    THEN NotFound(op, "Account")
    ELSE IF account_missing(transaction.to_account_id)
    THEN NotFound(op, "Account")
    ELSE /\ accounts' = credit(debit(accounts, transaction.from_account_id,
                                     transaction.amount),
                               transaction.to_account_id, transaction.amount)
         /\ transactions' = [transactions EXCEPT ![transaction_id].status = "cleared"]
         /\ Return(op, transaction_id)
         /\ UNCHANGED <<customers, swift_messages>>

clear_transaction(transaction_id) ==
    LET op == "clear_transaction" IN
    IF transaction_missing(transaction_id)
    THEN NotFound(op, "Transaction")
    ELSE LET transaction == transactions[transaction_id] IN
    IF not_pending(transaction)
    THEN Raise(op, "InvalidState", None)
    ELSE IF account_missing(transaction.from_account_id)
    THEN NotFound(op, "Account")
    ELSE IF account_missing(transaction.to_account_id)
    THEN NotFound(op, "Account")
    ELSE \E now \in Timestamps :
            /\ accounts' = credit(debit(accounts, transaction.from_account_id,
                                        transaction.amount),
                                  transaction.to_account_id, transaction.amount)
            /\ transactions' = [transactions EXCEPT
                                   ![transaction_id].status = "cleared",
                                   ![transaction_id].processed_at = Some(now)]
            /\ Return(op, transaction_id)
            /\ UNCHANGED <<customers, swift_messages>>

\* flag_transaction_for_fraud rejecting the transaction instead of flagging it.
flag_transaction_for_fraud_rejecting(transaction_id) ==
    LET op == "flag_transaction_for_fraud" IN
    IF transaction_missing(transaction_id)
    THEN NotFound(op, "Transaction")
    ELSE /\ transactions' = [transactions EXCEPT ![transaction_id].status = "rejected"]
         /\ Return(op, transaction_id)
         /\ UNCHANGED <<customers, accounts, swift_messages>>

\* flag_transaction_for_fraud with the status guard of clear_transaction.
flag_transaction_for_fraud_guarded(transaction_id) ==
    LET op == "flag_transaction_for_fraud" IN
    IF transaction_missing(transaction_id)
    THEN NotFound(op, "Transaction")
    ELSE IF not_pending(transactions[transaction_id])
    THEN Raise(op, "InvalidState", None)
    ELSE /\ transactions' = [transactions EXCEPT ![transaction_id].status = "flagged"]
         /\ Return(op, transaction_id)
         /\ UNCHANGED <<customers, accounts, swift_messages>>

flag_transaction_for_fraud(transaction_id) ==
    LET op == "flag_transaction_for_fraud" IN
    IF transaction_missing(transaction_id)
    THEN NotFound(op, "Transaction")
    ELSE /\ transactions' = [transactions EXCEPT ![transaction_id].status = "flagged"]
         /\ Return(op, transaction_id)
         /\ UNCHANGED <<customers, accounts, swift_messages>>

create_swift_message ==
    LET op == "create_swift_message" IN
    \E message_id \in uuid4(NewMessageIds, swift_messages) :
        /\ swift_messages' = swift_messages @@ (message_id :> SwiftMessage(message_id))
        /\ Return(op, message_id)
        /\ UNCHANGED <<customers, accounts, transactions>>

\* link_swift_message_to_transaction assigning the reference before the
\* message is looked up.
link_swift_message_to_transaction_early(transaction_id, message_id) ==
    LET op == "link_swift_message_to_transaction" IN
    IF transaction_missing(transaction_id)
    THEN NotFound(op, "Transaction")
    ELSE /\ transactions' = [transactions EXCEPT
                                ![transaction_id].swift_message_id = Some(message_id)]
         /\ UNCHANGED <<customers, accounts, swift_messages, pc, cur>>
         /\ ret' = IF swift_message_missing(message_id)
                   THEN [op |-> op, err |-> "NotFound",
                         entity |-> Some("SWIFT message"), val |-> None]
                   ELSE [op |-> op, err |-> "ok", entity |-> None,
                         val |-> Some(transaction_id)]

link_swift_message_to_transaction(transaction_id, message_id) ==
    LET op == "link_swift_message_to_transaction" IN
    IF transaction_missing(transaction_id)
    THEN NotFound(op, "Transaction")
    ELSE IF swift_message_missing(message_id)
    THEN NotFound(op, "SWIFT message")
    ELSE /\ transactions' = [transactions EXCEPT
                                ![transaction_id].swift_message_id = Some(message_id)]
         /\ Return(op, transaction_id)
         /\ UNCHANGED <<customers, accounts, swift_messages>>

\* set_fraud_score that keeps a score the transaction already has.
set_fraud_score_once(transaction_id, fraud_score) ==
    LET op == "set_fraud_score" IN
    IF ~(FloatLe(0, fraud_score) /\ FloatLe(fraud_score, 1))
    THEN Raise(op, "InvalidArgument", None)
    ELSE IF transaction_missing(transaction_id)
    THEN NotFound(op, "Transaction")
    ELSE /\ transactions' = [transactions EXCEPT
                                ![transaction_id].fraud_score =
                                    IF @ = None THEN Some(fraud_score) ELSE @]
         /\ Return(op, transaction_id)
         /\ UNCHANGED <<customers, accounts, swift_messages>>

\* set_fraud_score that also flags the transaction it scores.
set_fraud_score_flagging(transaction_id, fraud_score) ==
    LET op == "set_fraud_score" IN
    IF ~(FloatLe(0, fraud_score) /\ FloatLe(fraud_score, 1))
    THEN Raise(op, "InvalidArgument", None)
    ELSE IF transaction_missing(transaction_id)
    THEN NotFound(op, "Transaction")
    ELSE /\ transactions' = [transactions EXCEPT
                                ![transaction_id].fraud_score = Some(fraud_score),
                                ![transaction_id].status = "flagged"]
         /\ Return(op, transaction_id)
         /\ UNCHANGED <<customers, accounts, swift_messages>>

set_fraud_score(transaction_id, fraud_score) ==
    LET op == "set_fraud_score" IN
    IF ~(FloatLe(0, fraud_score) /\ FloatLe(fraud_score, 1))
    THEN Raise(op, "InvalidArgument", None)
    ELSE IF transaction_missing(transaction_id)
    THEN NotFound(op, "Transaction")
    ELSE /\ transactions' = [transactions EXCEPT
                                ![transaction_id].fraud_score = Some(fraud_score)]
         /\ Return(op, transaction_id)
         /\ UNCHANGED <<customers, accounts, swift_messages>>

----------------------------------------------------------------------------
\* The store a snapshot hands over: validated records (balance >= 0,
\* amount > 0), references unchecked.  It holds no transaction, or one that is
\* pending or rejected and may name an account the store lacks.

SnapshotTransactions ==
    { Transaction(0, e[1], e[2], MaxAmount, "USD", e[3]) :
        e \in {<<"acc_1", "acc_2", "pending">>,
               <<"acc_1", "acc_2", "rejected">>,
               <<AbsentAccount, "acc_2", "pending">>,
               <<"acc_1", AbsentAccount, "pending">>} }

Init ==
    /\ customers = [c \in CustomerIds |-> Customer(c)]
    /\ accounts = ("acc_1" :> Account("acc_1", "cust_1", InitBalance["acc_1"])) @@
                  ("acc_2" :> Account("acc_2", "cust_2", InitBalance["acc_2"]))
    /\ \/ transactions = <<>>
       \/ \E t \in SnapshotTransactions : transactions = (0 :> t)
    /\ swift_messages = <<>>
    /\ ret = [op |-> "init", err |-> "ok", entity |-> None, val |-> None]
    /\ pc = "idle"
    /\ cur = None

\* One caller, one operation at a time, each run to completion.
Next ==
    \/ \E c \in AnyCustomerId : get_customer_details(c)
    \/ \E a \in AnyAccountId : get_account_balance(a)
    \/ \E t \in AnyTransactionId : get_transaction_status(t)
    \/ \E c \in AnyCustomerId : get_customer_accounts(c)
    \/ \E a \in AnyAccountId : get_account_transactions(a)
    \/ \E m \in AnyMessageId : get_swift_message(m)
    \/ \E f \in AnyAccountId, t \in AnyAccountId, a \in Amounts, c \in Currencies :
          create_transaction(f, t, a, c)
    \/ \E t \in AnyTransactionId : clear_transaction(t)
    \/ \E t \in AnyTransactionId : flag_transaction_for_fraud(t)
    \/ create_swift_message
    \/ \E t \in AnyTransactionId, m \in AnyMessageId :
          link_swift_message_to_transaction(t, m)
    \/ \E t \in AnyTransactionId, s \in Scores : set_fraud_score(t, s)

Spec == Init /\ [][Next]_vars

\* The callers of Next, and one that passes float("nan") as the amount.
NextNaN ==
    \/ Next
    \/ \E f \in AnyAccountId, t \in AnyAccountId, c \in Currencies :
          create_transaction(f, t, NaN, c)

SpecNaN == Init /\ [][NextNaN]_vars

\* The stores of Init, and those in which acc_2 names an owner the customer
\* mapping lacks: a snapshot's references are unchecked.
InitScan ==
    /\ customers = [c \in CustomerIds |-> Customer(c)]
    /\ \E owner \in {"cust_2", AbsentCustomer} :
          accounts = ("acc_1" :> Account("acc_1", "cust_1", InitBalance["acc_1"])) @@
                     ("acc_2" :> Account("acc_2", owner, InitBalance["acc_2"]))
    /\ \/ transactions = <<>>
       \/ \E t \in SnapshotTransactions : transactions = (0 :> t)
    /\ swift_messages = <<>>
    /\ ret = [op |-> "init", err |-> "ok", entity |-> None, val |-> None]
    /\ pc = "idle"
    /\ cur = None

SpecScan == InitScan /\ [][Next]_vars

\* The callers of Next, and one that passes the other end of the score range.
MoreScores == {0}
AllScores == Scores \cup MoreScores

NextScores ==
    \/ Next
    \/ \E t \in AnyTransactionId, s \in MoreScores : set_fraud_score(t, s)

SpecScores == Init /\ [][NextScores]_vars

----------------------------------------------------------------------------
\* clear_transaction run one statement at a time by a second caller, whose
\* locals transaction, from_account and to_account are the objects of the
\* store.  The calls of Next, made by other callers, run between its steps.

\* tools.py lines 113-118.
clear_resolve(transaction_id) ==
    LET op == "clear_transaction" IN
    /\ pc = "idle"
    /\ IF transaction_missing(transaction_id)
       THEN NotFound(op, "Transaction")
       ELSE LET transaction == transactions[transaction_id] IN
       IF not_pending(transaction)
       THEN Raise(op, "InvalidState", None)
       ELSE IF account_missing(transaction.from_account_id)
       THEN NotFound(op, "Account")
       ELSE IF account_missing(transaction.to_account_id)
       THEN NotFound(op, "Account")
       ELSE /\ pc' = "resolved"
            /\ cur' = Some(transaction_id)
            /\ UNCHANGED <<db, ret>>

\* tools.py line 121.
clear_debit ==
    /\ pc = "resolved"
    /\ accounts' = debit(accounts, transactions[cur[1]].from_account_id,
                         transactions[cur[1]].amount)
    /\ pc' = "debited"
    /\ UNCHANGED <<customers, transactions, swift_messages, ret, cur>>

\* tools.py line 122.
clear_credit ==
    /\ pc = "debited"
    /\ accounts' = credit(accounts, transactions[cur[1]].to_account_id,
                          transactions[cur[1]].amount)
    /\ pc' = "credited"
    /\ UNCHANGED <<customers, transactions, swift_messages, ret, cur>>

\* tools.py line 125.
clear_set_status ==
    /\ pc = "credited"
    /\ transactions' = [transactions EXCEPT ![cur[1]].status = "cleared"]
    /\ pc' = "status_set"
    /\ UNCHANGED <<customers, accounts, swift_messages, ret, cur>>

\* tools.py lines 126-132: the two assignments into the mapping store the
\* objects it already holds.
clear_set_processed_at ==
    /\ pc = "status_set"
    /\ \E now \in Timestamps :
          transactions' = [transactions EXCEPT ![cur[1]].processed_at = Some(now)]
    /\ ret' = [op |-> "clear_transaction", err |-> "ok", entity |-> None,
               val |-> cur]
    /\ pc' = "idle"
    /\ cur' = None
    /\ UNCHANGED <<customers, accounts, swift_messages>>

NextSteps ==
    \/ Next
    \/ \E t \in AnyTransactionId : clear_resolve(t)
    \/ clear_debit
    \/ clear_credit
    \/ clear_set_status
    \/ clear_set_processed_at

\* The stores of Init whose transaction, if any, names two accounts of the
\* store.
InitSteps ==
    /\ Init
    /\ \A t \in DOMAIN transactions :
          /\ transactions[t].from_account_id \in DOMAIN accounts
          /\ transactions[t].to_account_id \in DOMAIN accounts
          /\ transactions[t].status = "pending"

SpecSteps == InitSteps /\ [][NextSteps]_vars

----------------------------------------------------------------------------
\* Properties.

RECURSIVE SumBalances(_, _)
SumBalances(accts, ids) ==
    IF ids = {} THEN 0
    ELSE LET a == CHOOSE x \in ids : TRUE
         IN  accts[a].balance + SumBalances(accts, ids \ {a})

TotalBalance(accts) == SumBalances(accts, DOMAIN accts)

\* C1: every account balance is >= 0 in every reachable state.
C1_BalanceNeverNegative == \A a \in DOMAIN accounts : accounts[a].balance >= 0

\* C2: a successful clear_transaction of a transaction of amount A from S to D
\* (both accounts of the store) leaves balance(S) exactly A lower, balance(D)
\* exactly A higher and balance(S) + balance(D) unchanged.
C2_ClearMovesAmount ==
    [][(ret'.op = "clear_transaction" /\ ret'.err = "ok") =>
          \A t \in DOMAIN transactions :
              clear_transaction(t) =>
                  LET S == transactions[t].from_account_id
                      D == transactions[t].to_account_id
                      A == transactions[t].amount
                  IN  /\ accounts'[S].balance = accounts[S].balance - A
                      /\ accounts'[D].balance = accounts[D].balance + A
                      /\ accounts'[S].balance + accounts'[D].balance =
                             accounts[S].balance + accounts[D].balance]_vars

\* C3: the sum of the balances of all accounts is the same in every reachable
\* state.
C3_TotalConserved == TotalBalance(accounts) = InitBalance["acc_1"] + InitBalance["acc_2"]

\* C4: in every step a transaction's status stays the same or changes from
\* pending to cleared or from pending to flagged.
C4_StatusOnlyLeavesPending ==
    [][\A t \in DOMAIN transactions :
          \/ transactions'[t].status = transactions[t].status
          \/ /\ transactions[t].status = "pending"
             /\ transactions'[t].status \in {"cleared", "flagged"}]_vars

\* C5: clear_transaction on an existing transaction that is not pending fails
\* with InvalidState and leaves every balance, the transaction's status and its
\* processed timestamp unchanged; on an absent id it fails with NotFound.
C5_ClearNotPendingFails ==
    [][ret'.op = "clear_transaction" =>
          \A t \in AnyTransactionId :
              clear_transaction(t) =>
                  IF t \notin DOMAIN transactions
                  THEN ret'.err = "NotFound" /\ ret'.entity = Some("Transaction")
                  ELSE transactions[t].status # "pending" =>
                          /\ ret'.err = "InvalidState"
                          /\ accounts' = accounts
                          /\ transactions'[t].status = transactions[t].status
                          /\ transactions'[t].processed_at =
                                 transactions[t].processed_at]_vars

\* A cleared transaction has been cleared again and the call failed.
C5_Witness ==
    /\ ret.op = "clear_transaction"
    /\ ret.err = "InvalidState"
    /\ \E t \in DOMAIN transactions : transactions[t].status = "cleared"

\* C6: create_transaction between two accounts of the store with amount
\* greater than the source balance fails with InsufficientFunds, inserts nothing
\* and changes no balance; with amount equal to the balance it does not fail
\* with InsufficientFunds.
C6_InsufficientFunds ==
    [][ret'.op = "create_transaction" =>
          \A f \in DOMAIN accounts, a \in Amounts :
              /\ a > accounts[f].balance =>
                    \A t \in DOMAIN accounts, c \in Currencies :
                        create_transaction(f, t, a, c) =>
                            /\ ret'.err = "InsufficientFunds"
                            /\ DOMAIN transactions' = DOMAIN transactions
                            /\ transactions' = transactions
                            /\ accounts' = accounts
              /\ a = accounts[f].balance =>
                    \A t \in DOMAIN accounts, c \in Currencies :
                        create_transaction(f, t, a, c) =>
                            ret'.err # "InsufficientFunds"]_vars

\* A creation has failed for lack of funds.
C6_Witness ==
    /\ ret.op = "create_transaction"
    /\ ret.err = "InsufficientFunds"
    /\ \E f \in DOMAIN accounts, a \in Amounts : a > accounts[f].balance

\* C7: a successful create_transaction (both accounts in the store,
\* 0 < amount <= source balance) adds exactly one transaction under a new
\* identifier, pending, with the given source, destination, amount and
\* currency, no fraud score, no message and no processed timestamp; no balance
\* and no other transaction changes.
C7_CreateAddsOnePending ==
    [][ret'.op = "create_transaction" =>
          \A f \in DOMAIN accounts, a \in Amounts :
              (0 < a /\ a <= accounts[f].balance) =>
                  \A t \in DOMAIN accounts, c \in Currencies :
                      create_transaction(f, t, a, c) =>
                          /\ ret'.err = "ok"
                          /\ \E id \in DOMAIN transactions' \ DOMAIN transactions :
                                /\ ret'.val = Some(id)
                                /\ DOMAIN transactions' = DOMAIN transactions \cup {id}
                                /\ transactions'[id] =
                                       [transaction_id   |-> id,
                                        from_account_id  |-> f,
                                        to_account_id    |-> t,
                                        amount           |-> a,
                                        currency         |-> c,
                                        status           |-> "pending",
                                        swift_message_id |-> None,
                                        fraud_score      |-> None,
                                        processed_at     |-> None,
                                        description      |-> None]
                          /\ \A o \in DOMAIN transactions :
                                transactions'[o] = transactions[o]
                          /\ accounts' = accounts
                          /\ customers' = customers
                          /\ swift_messages' = swift_messages]_vars

\* A creation has succeeded and its transaction is in the store.
C7_Witness ==
    /\ ret.op = "create_transaction"
    /\ ret.err = "ok"
    /\ ret.val[1] \in DOMAIN transactions
    /\ transactions[ret.val[1]].status = "pending"

\* C8: with clear_transaction run step by step among other calls, no state
\* shows the transaction cleared while the debit is applied and the credit is
\* not.
C8_NoClearedHalfApplied ==
    pc = "debited" => transactions[cur[1]].status # "cleared"

\* C9: an operation that ends in an error leaves the four mappings as they
\* were.
C9_ErrorLeavesStore ==
    [][ret'.err # "ok" => db' = db]_vars

\* A link naming a message the store lacks has failed on an existing
\* transaction.
C9_Witness ==
    /\ ret.op = "link_swift_message_to_transaction"
    /\ ret.err = "NotFound"
    /\ ret.entity = Some("SWIFT message")
    /\ DOMAIN transactions # {}

\* C10: create_transaction between two accounts of the store with amount <= 0
\* fails with InvalidArgument and inserts nothing.
C10_NonPositiveAmountInvalidArgument ==
    [][ret'.op = "create_transaction" =>
          \A a \in Amounts :
              a <= 0 =>
                  \A f \in DOMAIN accounts, t \in DOMAIN accounts, c \in Currencies :
                      create_transaction(f, t, a, c) =>
                          /\ ret'.err = "InvalidArgument"
                          /\ transactions' = transactions]_vars

\* C11: every transaction of the store has amount > 0 and a fraud score that
\* is absent or within [0, 1].
C11_AmountPositiveScoreInRange ==
    \A t \in DOMAIN transactions :
        /\ FloatLt(0, transactions[t].amount)
        /\ \/ transactions[t].fraud_score = None
           \/ /\ FloatLe(0, transactions[t].fraud_score[1])
              /\ FloatLe(transactions[t].fraud_score[1], 1)

\* The transactions are those of the state before, and they differ from it at
\* most in the named fields of transaction t.
OnlyTransactionFields(t, fields) ==
    /\ DOMAIN transactions' = DOMAIN transactions
    /\ \A o \in DOMAIN transactions :
          \A k \in DOMAIN transactions[o] :
              (o # t \/ k \notin fields) => transactions'[o][k] = transactions[o][k]

\* The accounts are those of the state before, and they differ from it at
\* most in the balances of the accounts in ids.
OnlyBalancesOf(ids) ==
    /\ DOMAIN accounts' = DOMAIN accounts
    /\ \A a \in DOMAIN accounts :
          /\ accounts'[a].account_id = accounts[a].account_id
          /\ accounts'[a].customer_id = accounts[a].customer_id
          /\ a \notin ids => accounts'[a].balance = accounts[a].balance

ReadOperations ==
    {"get_customer_details", "get_account_balance", "get_transaction_status",
     "get_customer_accounts", "get_account_transactions", "get_swift_message"}

\* C12: a read operation changes nothing; flag_transaction_for_fraud changes
\* only the status of the named transaction, set_fraud_score only its fraud
\* score, link_swift_message_to_transaction only its message reference;
\* create_swift_message only adds one message; clear_transaction changes only
\* the named transaction's status and processed timestamp and the balances of
\* its source and destination accounts.
C12_FrameEffects ==
    [][/\ ret'.op \in ReadOperations => db' = db
       /\ ret'.op = "flag_transaction_for_fraud" =>
             \A t \in AnyTransactionId :
                 flag_transaction_for_fraud(t) =>
                     /\ UNCHANGED <<customers, accounts, swift_messages>>
                     /\ OnlyTransactionFields(t, {"status"})
       /\ ret'.op = "set_fraud_score" =>
             \A t \in AnyTransactionId, s \in Scores :
                 set_fraud_score(t, s) =>
                     /\ UNCHANGED <<customers, accounts, swift_messages>>
                     /\ OnlyTransactionFields(t, {"fraud_score"})
       /\ ret'.op = "link_swift_message_to_transaction" =>
             \A t \in AnyTransactionId, m \in AnyMessageId :
                 link_swift_message_to_transaction(t, m) =>
                     /\ UNCHANGED <<customers, accounts, swift_messages>>
                     /\ OnlyTransactionFields(t, {"swift_message_id"})
       /\ ret'.op = "create_swift_message" =>
             /\ UNCHANGED <<customers, accounts, transactions>>
             /\ Cardinality(DOMAIN swift_messages' \ DOMAIN swift_messages) = 1
             /\ DOMAIN swift_messages \subseteq DOMAIN swift_messages'
             /\ \A m \in DOMAIN swift_messages : swift_messages'[m] = swift_messages[m]
       /\ ret'.op = "clear_transaction" =>
             \A t \in AnyTransactionId :
                 clear_transaction(t) =>
                     /\ UNCHANGED <<customers, swift_messages>>
                     /\ OnlyTransactionFields(t, {"status", "processed_at"})
                     /\ IF t \in DOMAIN transactions
                        THEN OnlyBalancesOf({transactions[t].from_account_id,
                                             transactions[t].to_account_id})
                        ELSE accounts' = accounts]_vars

\* A cleared transaction has been given a fraud score, in a store that holds a
\* message.
C12_Witness ==
    /\ ret.op = "set_fraud_score"
    /\ ret.err = "ok"
    /\ transactions[ret.val[1]].fraud_score # None
    /\ transactions[ret.val[1]].status = "cleared"
    /\ DOMAIN swift_messages # {}

\* The step is a clear_transaction of t that returned.
ClearedNow(t) ==
    /\ ret'.op = "clear_transaction"
    /\ ret'.err = "ok"
    /\ ret'.val = Some(t)

\* C13: a transaction enters the store without a processed timestamp; the
\* timestamp is set by a successful clear_transaction of that transaction, in
\* the step in which its status becomes cleared, and by no other step; once set
\* it is never changed or unset, and no later clear_transaction of the
\* transaction succeeds.
C13_ProcessedAtSetOnce ==
    [][\A t \in DOMAIN transactions' :
          IF t \notin DOMAIN transactions
          THEN transactions'[t].processed_at = None
          ELSE /\ transactions[t].processed_at # None =>
                     /\ transactions'[t].processed_at = transactions[t].processed_at
                     /\ ~ClearedNow(t)
               /\ transactions[t].processed_at = None =>
                     /\ transactions'[t].processed_at # None <=> ClearedNow(t)
                     /\ ClearedNow(t) =>
                            /\ transactions[t].status = "pending"
                            /\ transactions'[t].status = "cleared"
                     /\ transactions'[t].status = "cleared" => ClearedNow(t)]_vars

\* A created transaction has been cleared, then flagged, and a further
\* clear_transaction has failed: it still carries its processed timestamp.
C13_Witness ==
    /\ \E t \in NewTransactionIds \cap DOMAIN transactions :
          /\ transactions[t].status = "flagged"
          /\ transactions[t].processed_at # None
    /\ ret.op = "clear_transaction"
    /\ ret.err = "InvalidState"

\* C14: set_fraud_score(t, s) on an existing transaction, whatever its status,
\* with s in [0, 1] succeeds and leaves the stored fraud score of t equal to s
\* (overwriting a score t had); every step that is not a successful
\* set_fraud_score on t leaves the fraud score of t as it was.
C14_FraudScoreRoundTrip ==
    [][\A t \in DOMAIN transactions :
          /\ ret'.op = "set_fraud_score" =>
                \A s \in AllScores :
                    (FloatLe(0, s) /\ FloatLe(s, 1) /\ set_fraud_score(t, s)) =>
                        /\ ret'.err = "ok"
                        /\ ret'.val = Some(t)
                        /\ transactions'[t].fraud_score = Some(s)
          /\ ~(ret'.op = "set_fraud_score" /\ ret'.err = "ok" /\ ret'.val = Some(t)) =>
                transactions'[t].fraud_score = transactions[t].fraud_score]_vars

\* set_fraud_score has returned for a cleared transaction, which carries the
\* score 0, while the other transaction, flagged, carries the score 1.
C14_Witness ==
    /\ ret.op = "set_fraud_score"
    /\ ret.err = "ok"
    /\ transactions[ret.val[1]].fraud_score = Some(0)
    /\ transactions[ret.val[1]].status = "cleared"
    /\ \E o \in DOMAIN transactions :
          /\ o # ret.val[1]
          /\ transactions[o].fraud_score = Some(1)
          /\ transactions[o].status = "flagged"

\* C15: each message of the store is named by the message reference of at
\* most one transaction.
C15_MessageLinkedAtMostOnce ==
    \A m \in DOMAIN swift_messages :
        Cardinality({t \in DOMAIN transactions :
                        transactions[t].swift_message_id = Some(m)}) <= 1

\* C16: clear_transaction on a pending transaction whose source and
\* destination accounts are in the store succeeds whatever the balance of the
\* source: the funds are not checked again.
C16_ClearWithoutFundsCheck ==
    [][ret'.op = "clear_transaction" =>
          \A t \in DOMAIN transactions :
              (/\ transactions[t].status = "pending"
               /\ transactions[t].from_account_id \in DOMAIN accounts
               /\ transactions[t].to_account_id \in DOMAIN accounts
               /\ clear_transaction(t)) =>
                  /\ ret'.err = "ok"
                  /\ ret'.val = Some(t)
                  /\ transactions'[t].status = "cleared"]_vars

\* Two transactions on the same source are cleared and the clear that returned
\* last has taken the source below zero.
C16_Witness ==
    /\ ret.op = "clear_transaction"
    /\ ret.err = "ok"
    /\ \E o \in DOMAIN transactions :
          /\ o # ret.val[1]
          /\ transactions[o].status = "cleared"
          /\ transactions[o].from_account_id = transactions[ret.val[1]].from_account_id
    /\ transactions[ret.val[1]].status = "cleared"
    /\ accounts[transactions[ret.val[1]].from_account_id].balance < 0

\* C17: with calls run one after another, clear_transaction succeeds at most
\* once per transaction: a clear that succeeds finds the transaction pending
\* and leaves it not pending; a transaction that is not pending never becomes
\* pending again, and every clear_transaction of it fails and moves no money;
\* and the balances change in no step other than a successful clear.
C17_ClearAtMostOnce ==
    [][/\ \A t \in DOMAIN transactions :
             /\ ClearedNow(t) =>
                   /\ transactions[t].status = "pending"
                   /\ transactions'[t].status # "pending"
             /\ transactions[t].status # "pending" =>
                   /\ transactions'[t].status # "pending"
                   /\ ~ClearedNow(t)
                   /\ (ret'.op = "clear_transaction" /\ clear_transaction(t)) =>
                          /\ ret'.err = "InvalidState"
                          /\ accounts' = accounts
       /\ accounts' # accounts =>
             \E t \in DOMAIN transactions : ClearedNow(t)]_vars

\* Both transactions of the store have been cleared and a further
\* clear_transaction has failed.
C17_Witness ==
    /\ ret.op = "clear_transaction"
    /\ ret.err = "InvalidState"
    /\ Cardinality(DOMAIN transactions) = 2
    /\ \A t \in DOMAIN transactions :
          /\ transactions[t].status = "cleared"
          /\ transactions[t].processed_at # None

\* C18: flag_transaction_for_fraud on a transaction of the store succeeds
\* from any status and leaves it flagged, with every balance unchanged; on a
\* transaction that is already flagged it changes nothing (flagging twice is
\* flagging once); on an absent id it fails with NotFound.
C18_FlagFromAnyStatus ==
    [][ret'.op = "flag_transaction_for_fraud" =>
          \A t \in AnyTransactionId :
              flag_transaction_for_fraud(t) =>
                  IF t \notin DOMAIN transactions
                  THEN /\ ret'.err = "NotFound"
                       /\ ret'.entity = Some("Transaction")
                       /\ db' = db
                  ELSE /\ ret'.err = "ok"
                       /\ ret'.val = Some(t)
                       /\ transactions'[t].status = "flagged"
                       /\ accounts' = accounts
                       /\ transactions[t].status = "flagged" => db' = db]_vars

\* A cleared transfer between two accounts has been flagged: the transaction
\* is flagged, carries its processed timestamp, and the source is still debited.
C18_Witness ==
    /\ ret.op = "flag_transaction_for_fraud"
    /\ ret.err = "ok"
    /\ LET t == transactions[ret.val[1]] IN
          /\ t.status = "flagged"
          /\ t.processed_at # None
          /\ t.from_account_id # t.to_account_id
          /\ accounts[t.from_account_id].balance < InitBalance[t.from_account_id]

\* C19: a flagged transaction stays flagged in every later state, and its
\* amount is not applied after the flag: no clear_transaction of it succeeds,
\* its processed timestamp stays as it is (absent, when it was flagged while
\* pending), and the balances change only through the clearing of another
\* transaction.
C19_FlaggedStaysFlagged ==
    [][\A t \in DOMAIN transactions :
          transactions[t].status = "flagged" =>
              /\ transactions'[t].status = "flagged"
              /\ transactions'[t].processed_at = transactions[t].processed_at
              /\ ~ClearedNow(t)
              /\ (ret'.op = "clear_transaction" /\ clear_transaction(t)) =>
                     /\ ret'.err = "InvalidState"
                     /\ accounts' = accounts
              /\ accounts' # accounts =>
                     \E o \in DOMAIN transactions : o # t /\ ClearedNow(o)]_vars

\* A created transaction was flagged while pending and a clear_transaction has
\* then failed: it is flagged, has no processed timestamp, and its source and
\* destination hold their initial balances.
C19_Witness ==
    /\ ret.op = "clear_transaction"
    /\ ret.err = "InvalidState"
    /\ \E t \in NewTransactionIds \cap DOMAIN transactions :
          /\ transactions[t].status = "flagged"
          /\ transactions[t].processed_at = None
          /\ transactions[t].from_account_id # transactions[t].to_account_id
          /\ \A a \in {transactions[t].from_account_id, transactions[t].to_account_id} :
                accounts[a].balance = InitBalance[a]

\* C20: no operation sets a status to rejected: a transaction that is rejected
\* after a step was in the store, and rejected, before it.  A store without a
\* rejected transaction therefore never gets one.
C20_RejectedNeverSet ==
    [][\A t \in DOMAIN transactions' :
          transactions'[t].status = "rejected" =>
              /\ t \in DOMAIN transactions
              /\ transactions[t].status = "rejected"]_vars

\* The snapshot's transaction, pending at the start, is cleared, and the
\* created one is flagged after a flag_transaction_for_fraud: none is rejected.
C20_Witness ==
    /\ ret.op = "flag_transaction_for_fraud"
    /\ ret.err = "ok"
    /\ DOMAIN transactions = {0} \cup NewTransactionIds
    /\ transactions[0].status = "cleared"
    /\ \A t \in NewTransactionIds : transactions[t].status = "flagged"
    /\ \A t \in DOMAIN transactions : transactions[t].status # "rejected"

\* Every transaction names two accounts of the store and no message or a
\* message of the store.
ReferentialIntegrity(accts, txs, msgs) ==
    \A t \in DOMAIN txs :
        /\ txs[t].from_account_id \in DOMAIN accts
        /\ txs[t].to_account_id \in DOMAIN accts
        /\ \/ txs[t].swift_message_id = None
           \/ txs[t].swift_message_id[1] \in DOMAIN msgs

\* C21: no step removes a record from any of the four mappings; a step from a
\* store in which every transaction names two accounts of the store and no
\* message or a message of the store leads to such a store; and in such a
\* store clear_transaction on a pending transaction does not fail with
\* NotFound for an account.
C21_ReferentialIntegrity ==
    [][/\ DOMAIN customers \subseteq DOMAIN customers'
       /\ DOMAIN accounts \subseteq DOMAIN accounts'
       /\ DOMAIN transactions \subseteq DOMAIN transactions'
       /\ DOMAIN swift_messages \subseteq DOMAIN swift_messages'
       /\ ReferentialIntegrity(accounts, transactions, swift_messages) =>
             /\ ReferentialIntegrity(accounts', transactions', swift_messages')
             /\ ret'.op = "clear_transaction" =>
                   \A t \in DOMAIN transactions :
                       (transactions[t].status = "pending" /\ clear_transaction(t)) =>
                           /\ ret'.err = "ok"
                           /\ ret'.entity # Some("Account")]_vars

\* In a store that keeps the references two transactions are held, the
\* created one linked to a message of the store, and the clear_transaction of
\* one of them has returned.
C21_Witness ==
    /\ ReferentialIntegrity(accounts, transactions, swift_messages)
    /\ DOMAIN transactions = {0} \cup NewTransactionIds
    /\ \E t \in NewTransactionIds :
          /\ transactions[t].swift_message_id # None
          /\ transactions[t].swift_message_id[1] \in DOMAIN swift_messages
    /\ ret.op = "clear_transaction"
    /\ ret.err = "ok"

\* The list l holds every element of the set S once and nothing else.
ListsExactly(l, S) ==
    /\ {l[i] : i \in 1..Len(l)} = S
    /\ Len(l) = Cardinality(S)

\* C22: get_account_transactions(a) returns the transactions whose source or
\* destination is a, each once and no other; get_customer_accounts(c) returns
\* the accounts whose owner is c and no other; each fails with NotFound when a
\* (c) is no key of the account (customer) mapping, whatever records name it.
C22_ScanQueries ==
    [][/\ ret'.op = "get_account_transactions" =>
             \A a \in AnyAccountId :
                 get_account_transactions(a) =>
                     IF a \in DOMAIN accounts
                     THEN /\ ret'.err = "ok"
                          /\ ListsExactly(ret'.val[1],
                                 {t \in DOMAIN transactions :
                                     \/ transactions[t].from_account_id = a
                                     \/ transactions[t].to_account_id = a})
                     ELSE /\ ret'.err = "NotFound"
                          /\ ret'.entity = Some("Account")
       /\ ret'.op = "get_customer_accounts" =>
             \A c \in AnyCustomerId :
                 get_customer_accounts(c) =>
                     IF c \in DOMAIN customers
                     THEN /\ ret'.err = "ok"
                          /\ ListsExactly(ret'.val[1],
                                 {a \in DOMAIN accounts : accounts[a].customer_id = c})
                     ELSE /\ ret'.err = "NotFound"
                          /\ ret'.entity = Some("Customer")]_vars

\* get_account_transactions has returned two transactions, one of them from
\* an account to itself, in a store whose acc_2 names an absent owner.
C22_Witness ==
    /\ ret.op = "get_account_transactions"
    /\ ret.err = "ok"
    /\ Len(ret.val[1]) = 2
    /\ \E i \in 1..2 :
          transactions[ret.val[1][i]].from_account_id =
              transactions[ret.val[1][i]].to_account_id
    /\ accounts["acc_2"].customer_id \notin DOMAIN customers

====
